---- MODULE Spec2Model ----
(***************************************************************************)
(* A model of src/log/log.rs: the memory-mapped, fixed-capacity log        *)
(* segment `Log` and the file system it is created on.                     *)
(*                                                                         *)
(* The mapping is a shared, writable mapping of the segment file, so the   *)
(* bytes a Log sees are the bytes of the file's pages: they are kept once, *)
(* per file, and every Log opened on that file reads and writes them.      *)
(***************************************************************************)
EXTENDS Integers, Sequences, FiniteSets, TLC

\* ---------------------------------------------------------------- bounds
\* largest max_size the caller passes to Log::new
MaxSize == 2
\* longest buffer the caller passes to Log::write
MaxLen == 2
\* usize::MAX of the modelled machine word (arithmetic is modulo UsizeMax + 1)
UsizeMax == 3
\* bytes per page of the mapping
PageSize == 2
\* the non-zero base offset the caller uses
MaxBaseOffset == 10

\* minimum field width of "{:020}"
PadWidth == 20

Min(a, b) == IF a < b THEN a ELSE b

\* u8 values written by the caller: zero and one non-zero value
Byte == {0, 1}
\* the Log values the caller holds at one time
Logs == {1, 2}
Usize == 0..UsizeMax
Sizes == 0..Min(MaxSize, UsizeMax)
BaseOffsets == {0, MaxBaseOffset}
Suffixes == {<<>>, <<".", "t", "m", "p">>}
Bufs == UNION {[1..n -> Byte] : n \in 0..Min(MaxLen, UsizeMax)}

\* ------------------------------------------------------- file name format
DigitChar == <<"0", "1", "2", "3", "4", "5", "6", "7", "8", "9">>

RECURSIVE Decimal(_)
\* Display of an unsigned integer: its decimal digits, most significant first
Decimal(n) ==
    IF n < 10 THEN <<DigitChar[n + 1]>>
    ELSE Decimal(n \div 10) \o <<DigitChar[(n % 10) + 1]>>

\* ZeroPad that stops one character short of the width
zero_pad_one_short(s, width) ==
    IF Len(s) >= width - 1 THEN s
    ELSE [i \in 1..(width - 1 - Len(s)) |-> "0"] \o s

\* the `0` flag with a width: left-pad with "0" up to the width, never truncate
ZeroPad(s, width) ==
    IF Len(s) >= width THEN s
    ELSE [i \in 1..(width - Len(s)) |-> "0"] \o s

\* format!("{:020}.log{}", base_offset, suffix)
SegmentName(base_offset, suffix) ==
    ZeroPad(Decimal(base_offset), PadWidth) \o <<".", "l", "o", "g">> \o suffix

\* ------------------------------------------------------------- the state
VARIABLES
    dir,      \* does the segment directory exist
    files,    \* name -> [exists, len, mem], for the files of the directory:
              \* the file's length and the bytes of its pages
    logs,     \* handle -> the Log value, or NoLog when the caller holds none
    status,   \* "running", "panicked" (a Rust panic) or "killed" (SIGBUS)
    last      \* the last call the caller made and what it returned

vars == <<dir, files, logs, status, last>>

\* the bytes backed by pages of a file of length len
PageSpan(len) == ((len + PageSize - 1) \div PageSize) * PageSize

NoFile == [exists |-> FALSE, len |-> 0, mem |-> <<>>]

\* the file at a name, NoFile when there is none
FileAt(fs, name) == IF name \in DOMAIN fs THEN fs[name] ELSE NoFile

\* the directory with the file at `name` replaced
Store(fs, name, file) ==
    IF file.exists
    THEN [n \in DOMAIN fs \cup {name} |-> IF n = name THEN file ELSE fs[n]]
    ELSE fs

\* struct Log; `file` is the name the file was opened at and `maplen` is
\* mmap.len(). Two fields are history, not fields of the code: `suffix`, the
\* suffix given to Log::new, and `written`, the buffers of the successful
\* writes, in call order
NoLog == [live |-> FALSE, file |-> <<>>, base_offset |-> 0, max_size |-> 0,
          offset |-> 0, maplen |-> 0, suffix |-> <<>>, written |-> <<>>]

\* the last call: the method and how it ended
NoCall == [op |-> "none", tag |-> "none"]

Init ==
    /\ dir = FALSE
    /\ files = <<>>
    /\ logs = [l \in Logs |-> NoLog]
    /\ status = "running"
    /\ last = NoCall

\* ------------------------------------------------------ usize arithmetic
\* what an arithmetic overflow evaluates to when overflow checks are on
Panic == -1

\* usize_add that assigns the right operand (`=` written for `+=`)
usize_add_assigns(a, b, checks) == b

\* a + b on usize: a panic with overflow checks (debug), wrapping without
usize_add(a, b, checks) ==
    IF a + b <= UsizeMax THEN a + b
    ELSE IF checks THEN Panic ELSE (a + b) % (UsizeMax + 1)

\* a - b on usize: a panic with overflow checks (debug), wrapping without
usize_sub(a, b, checks) ==
    IF a >= b THEN a - b
    ELSE IF checks THEN Panic ELSE (a - b) % (UsizeMax + 1)

\* ----------------------------------------------------- the file system
\* open that truncates the file it finds (truncate(true))
open_truncating(file) == [exists |-> TRUE, len |-> 0, mem |-> <<>>]

\* OpenOptions ... create(true).open(): the file is created empty if absent
\* and left as it is otherwise (no truncate)
open(file) ==
    IF file.exists THEN file
    ELSE [exists |-> TRUE, len |-> 0, mem |-> <<>>]

\* file.set_len(n): cut the file, or extend it with zeros
set_len(file, n) ==
    [exists |-> TRUE, len |-> n,
     mem |-> [i \in 1..PageSpan(n) |->
                 IF i <= Min(file.len, n) THEN file.mem[i] ELSE 0]]

\* the bytes of the file as read from disk
Contents(file) == SubSeq(file.mem, 1, file.len)

\* does a load or store of the mapped bytes [lo, hi) fault: a page wholly
\* past the end of the file raises SIGBUS
Faults(file, lo, hi) == lo < hi /\ hi > Len(file.mem)

\* copy_into with the copy placed at the cursor as already advanced
copy_at_advanced_cursor(mem, start, buf, amt) ==
    [i \in 1..Len(mem) |->
        IF start + amt < i /\ i <= start + amt + amt
        THEN buf[i - start - amt] ELSE mem[i]]

\* the mapped bytes after the first amt bytes of buf are copied to the
\* positions from start on
copy_into(mem, start, buf, amt) ==
    [i \in 1..Len(mem) |->
        IF start < i /\ i <= start + amt THEN buf[i - start] ELSE mem[i]]

\* ------------------------------------------------------------ Log methods
\* fit with the comparison one byte too generous
fit_one_more(log, size, checks) ==
    LET left == usize_sub(log.max_size, log.offset, checks)
    IN  IF left = Panic THEN "panic"
        ELSE IF left + 1 >= size THEN "true" ELSE "false"

\* fit that answers false whenever no byte is left
fit_false_when_full(log, size, checks) ==
    LET left == usize_sub(log.max_size, log.offset, checks)
    IN  IF left = Panic THEN "panic"
        ELSE IF left >= size /\ left > 0 THEN "true" ELSE "false"

\* fit that compares the size with the whole capacity
fit_whole_capacity(log, size, checks) ==
    IF log.max_size >= size THEN "true" ELSE "false"

\* Log::fit: "true", "false", or "panic" when the subtraction overflows
fit(log, size, checks) ==
    LET left == usize_sub(log.max_size, log.offset, checks)
    IN  IF left = Panic THEN "panic"
        ELSE IF left >= size THEN "true" ELSE "false"

\* write that rewinds the cursor when the buffer does not fit
write_rewinds(log, file, buf, checks) ==
    LET buf_size == Len(buf)
        fits     == fit(log, buf_size, checks)
        offset   == usize_add(log.offset, buf_size, checks)
        start    == usize_sub(offset, buf_size, checks)
        advanced == [log EXCEPT !.offset = offset]
    IN  IF fits = "panic" THEN
            [tag |-> "panic", n |-> 0, log |-> log, file |-> file]
        ELSE IF fits = "false" THEN
            [tag |-> "NoSpaceLeft", n |-> 0,
             log |-> [log EXCEPT !.offset = 0, !.written = <<>>],
             file |-> file]
        ELSE IF offset = Panic THEN
            [tag |-> "panic", n |-> 0, log |-> log, file |-> file]
        ELSE IF start = Panic \/ start > offset \/ offset > log.maplen THEN
            [tag |-> "panic", n |-> 0, log |-> advanced, file |-> file]
        ELSE IF Faults(file, start, offset) THEN
            [tag |-> "SIGBUS", n |-> 0, log |-> advanced, file |-> file]
        ELSE
            LET amt == Min(offset - start, buf_size)
            IN  [tag |-> "Ok", n |-> amt,
                 log |-> [advanced EXCEPT
                            !.written = @ \o SubSeq(buf, 1, amt)],
                 file |-> [file EXCEPT
                            !.mem = copy_into(@, start, buf, amt)]]

\* Log::write on a Log whose file is `file`: the returned tag and count, the
\* Log and the file after the call
write(log, file, buf, checks) ==
    LET buf_size == Len(buf)
        fits     == fit(log, buf_size, checks)
        offset   == usize_add(log.offset, buf_size, checks)
        start    == usize_sub(offset, buf_size, checks)
        advanced == [log EXCEPT !.offset = offset]
    IN  IF fits = "panic" THEN
            [tag |-> "panic", n |-> 0, log |-> log, file |-> file]
        ELSE IF fits = "false" THEN
            [tag |-> "NoSpaceLeft", n |-> 0, log |-> log, file |-> file]
        ELSE IF offset = Panic THEN
            [tag |-> "panic", n |-> 0, log |-> log, file |-> file]
        ELSE IF start = Panic \/ start > offset \/ offset > log.maplen THEN
            \* the slice index is out of range
            [tag |-> "panic", n |-> 0, log |-> advanced, file |-> file]
        ELSE IF Faults(file, start, offset) THEN
            [tag |-> "SIGBUS", n |-> 0, log |-> advanced, file |-> file]
        ELSE
            \* <&mut [u8] as Write>::write copies min(slice, buf) bytes
            LET amt == Min(offset - start, buf_size)
            IN  [tag |-> "Ok", n |-> amt,
                 log |-> [advanced EXCEPT
                            !.written = @ \o SubSeq(buf, 1, amt)],
                 file |-> [file EXCEPT
                            !.mem = copy_into(@, start, buf, amt)]]

\* Log::read_at: the returned tag and, for Ok, the bytes of the slice as the
\* caller reads them
read_at(log, file, offset, size, checks) ==
    LET end == usize_add(offset, size, checks)
    IN  IF end = Panic THEN [tag |-> "panic", bytes |-> <<>>]
        ELSE IF end > log.maplen THEN [tag |-> "InvalidIndex", bytes |-> <<>>]
        ELSE IF offset > end THEN
            \* slice index starts after it ends
            [tag |-> "panic", bytes |-> <<>>]
        ELSE IF Faults(file, offset, end) THEN
            [tag |-> "SIGBUS", bytes |-> <<>>]
        ELSE [tag |-> "Ok", bytes |-> SubSeq(file.mem, offset + 1, end)]

\* how the process goes on after a call that ended with `tag`
StatusAfter(tag) ==
    CASE tag = "panic"  -> "panicked"
      [] tag = "SIGBUS" -> "killed"
      [] OTHER          -> "running"

\* the steps of Log::new that can fail, in the order they are taken
NewFailures == {"none", "create_dir_all", "open", "set_len", "map_mut"}

\* Log::new on a directory (dir: does it exist) and the file at the segment's
\* name: the returned tag, the directory, the file and the Log after the call;
\* `fail` is the step the operating system refuses, if any
new(dir_exists, file, name, base_offset, max_size, suffix, fail) ==
    LET opened == open(file)
        sized  == set_len(opened, max_size)
    IN  CASE fail = "create_dir_all" ->
                \* .unwrap() of the Err
                [tag |-> "panic", dir |-> dir_exists, file |-> file,
                 log |-> NoLog]
          [] fail = "open" ->
                \* .unwrap() of the Err
                [tag |-> "panic", dir |-> TRUE, file |-> file, log |-> NoLog]
          [] fail = "set_len" ->
                [tag |-> "Io", dir |-> TRUE, file |-> opened, log |-> NoLog]
          [] fail = "map_mut" \/ (fail = "none" /\ max_size = 0) ->
                \* map_mut refuses a mapping of length zero
                [tag |-> "Io", dir |-> TRUE, file |-> sized, log |-> NoLog]
          [] OTHER ->
                [tag |-> "Ok", dir |-> TRUE, file |-> sized,
                 log |-> [live |-> TRUE, file |-> name,
                          base_offset |-> base_offset, max_size |-> max_size,
                          offset |-> 0, maplen |-> max_size,
                          suffix |-> suffix, written |-> <<>>]]

\* ---------------------------------------------------------------- actions
Running(l) == status = "running" /\ logs[l].live

\* the handle a new Log is bound to: the first one the caller does not hold
FreeHandle(l) == ~logs[l].live /\ \A k \in Logs : k < l => logs[k].live

\* the build profiles that differ on an operation: overflow checks on (TRUE)
\* and off (FALSE) differ only when the arithmetic overflows
Profiles(overflows) == IF overflows THEN {TRUE, FALSE} ELSE {TRUE}

\* Log::new(dir, base_offset, max_size, suffix), its result bound to handle l
New(l, base_offset, max_size, suffix, fail) ==
    LET name == SegmentName(base_offset, suffix)
        r    == new(dir, FileAt(files, name), name, base_offset, max_size,
                    suffix, fail)
    IN  /\ status = "running"
        /\ FreeHandle(l)
        /\ dir' = r.dir
        /\ files' = Store(files, name, r.file)
        /\ logs' = [logs EXCEPT ![l] = r.log]
        /\ last' = [op |-> "new", tag |-> r.tag]
        /\ status' = StatusAfter(r.tag)

\* Log::offset
Offset(l) ==
    /\ Running(l)
    /\ last' = [op |-> "offset", tag |-> "Ok"]
    /\ UNCHANGED <<dir, files, logs, status>>

\* Log::flush; `ok` is whether flush_async succeeds
Flush(l, ok) ==
    /\ Running(l)
    /\ last' = [op |-> "flush", tag |-> IF ok THEN "Ok" ELSE "Io"]
    /\ UNCHANGED <<dir, files, logs, status>>

\* Fit that reserves the bytes it finds room for
fit_that_reserves(l, size, checks) ==
    LET r == fit(logs[l], size, checks)
    IN  /\ Running(l)
        /\ last' = [op |-> "fit", tag |-> r]
        /\ status' = StatusAfter(r)
        /\ logs' = [logs EXCEPT ![l].offset =
                        IF r = "true" THEN @ + size ELSE @]
        /\ UNCHANGED <<dir, files>>

\* Log::fit(size)
Fit(l, size, checks) ==
    LET r == fit(logs[l], size, checks)
    IN  /\ Running(l)
        /\ last' = [op |-> "fit", tag |-> r]
        /\ status' = StatusAfter(r)
        /\ UNCHANGED <<dir, files, logs>>

\* Log::write(buf)
Write(l, buf, checks) ==
    LET r == write(logs[l], FileAt(files, logs[l].file), buf, checks)
    IN  /\ Running(l)
        /\ logs' = [logs EXCEPT ![l] = r.log]
        /\ files' = Store(files, logs[l].file, r.file)
        /\ last' = [op |-> "write", tag |-> r.tag]
        /\ status' = StatusAfter(r.tag)
        /\ UNCHANGED dir

\* Log::read_at(offset, size)
ReadAt(l, offset, size, checks) ==
    LET r == read_at(logs[l], FileAt(files, logs[l].file), offset, size, checks)
    IN  /\ Running(l)
        /\ last' = [op |-> "read_at", tag |-> r.tag]
        /\ status' = StatusAfter(r.tag)
        /\ UNCHANGED <<dir, files, logs>>

\* the Log goes out of scope: the mapping and the file handle are released
Drop(l) ==
    /\ Running(l)
    /\ logs' = [logs EXCEPT ![l] = NoLog]
    /\ last' = [op |-> "drop", tag |-> "Ok"]
    /\ UNCHANGED <<dir, files, status>>

\* the calls on a Log the caller holds
Use ==
    \/ \E l \in Logs : Offset(l)
    \/ \E l \in Logs, ok \in BOOLEAN : Flush(l, ok)
    \/ \E l \in Logs, n \in Usize :
          \E c \in Profiles(logs[l].offset > logs[l].max_size) : Fit(l, n, c)
    \/ \E l \in Logs, b \in Bufs :
          \E c \in Profiles(logs[l].offset > logs[l].max_size
                            \/ logs[l].offset + Len(b) > UsizeMax) :
             Write(l, b, c)
    \/ \E l \in Logs, o \in Usize, n \in Usize :
          \E c \in Profiles(o + n > UsizeMax) : ReadAt(l, o, n, c)
    \/ \E l \in Logs : Drop(l)

\* a caller that keeps every segment under one name (base offset 0, no
\* suffix) and opens it with any size
Next ==
    \/ \E l \in Logs, m \in Sizes, f \in NewFailures : New(l, 0, m, <<>>, f)
    \/ Use

Spec == Init /\ [][Next]_vars

\* a caller that opens one-byte segments under every name, asks for their
\* cursor and drops them
NextNames ==
    \/ \E l \in Logs, b \in BaseOffsets, s \in Suffixes, f \in NewFailures :
          New(l, b, 1, s, f)
    \/ \E l \in Logs : Offset(l)
    \/ \E l \in Logs : Drop(l)

SpecNames == Init /\ [][NextNames]_vars

\* ------------------------------------------------------------ properties
\* the file a Log maps
FileOf(l) == FileAt(files, logs[l].file)

\* n zero bytes
Zeros(n) == [i \in 1..n |-> 0]

\* C1: in every state and for every buffer b, a write(b) that succeeds moves
\* offset() up by exactly len(b), and read_at(old offset, len(b)) called right
\* after it returns exactly b
C1_WriteAdvancesAndReadsBack ==
    \A l \in Logs : Running(l) =>
        \A b \in Bufs, c \in BOOLEAN :
            LET w == write(logs[l], FileOf(l), b, c)
            IN  w.tag = "Ok" =>
                  /\ w.log.offset = logs[l].offset + Len(b)
                  /\ read_at(w.log, w.file, logs[l].offset, Len(b), c)
                        = [tag |-> "Ok", bytes |-> b]

\* a write of a non-zero byte has just succeeded on a Log that had written before
C1_Witness ==
    /\ last = [op |-> "write", tag |-> "Ok"]
    /\ \E l \in Logs : Running(l) /\ Len(logs[l].written) >= 2
                       /\ logs[l].written[Len(logs[l].written)] # 0

\* C2: in every state and for every buffer b longer than max_size - offset,
\* write(b) returns NoSpaceLeft and changes neither the cursor nor any mapped
\* byte
C2_NoSpaceLeftChangesNothing ==
    \A l \in Logs : Running(l) =>
        \A b \in Bufs, c \in BOOLEAN :
            Len(b) > logs[l].max_size - logs[l].offset =>
                LET w == write(logs[l], FileOf(l), b, c)
                IN  /\ w.tag = "NoSpaceLeft"
                    /\ w.log = logs[l]
                    /\ w.file = FileOf(l)

\* a write has just been refused on a Log that is partly filled
C2_Witness ==
    /\ last = [op |-> "write", tag |-> "NoSpaceLeft"]
    /\ \E l \in Logs : Running(l) /\ 0 < logs[l].offset
                       /\ logs[l].offset < logs[l].max_size

\* C3: in every state the cursor of a Log lies in 0..max_size, so the
\* subtraction in fit never underflows, whatever the build profile
C3_OffsetWithinMaxSize ==
    \A l \in Logs : logs[l].live =>
        /\ 0 <= logs[l].offset
        /\ logs[l].offset <= logs[l].max_size
        /\ usize_sub(logs[l].max_size, logs[l].offset, TRUE)
              = logs[l].max_size - logs[l].offset
        /\ \A n \in Usize, c \in BOOLEAN : fit(logs[l], n, c) # "panic"

\* fit has just answered false on a Log filled to its max_size
C3_Witness ==
    /\ last = [op |-> "fit", tag |-> "false"]
    /\ \E l \in Logs : Running(l) /\ logs[l].offset = logs[l].max_size

\* C4: in every state and for every pair of usize arguments whose sum exceeds
\* max_size, read_at returns InvalidIndex (it neither panics nor wraps)
C4_OutOfBoundsReadIsInvalidIndex ==
    \A l \in Logs : Running(l) =>
        \A o \in Usize, n \in Usize, c \in BOOLEAN :
            o + n > logs[l].max_size =>
                read_at(logs[l], FileOf(l), o, n, c).tag = "InvalidIndex"

\* C5: in every state and for every buffer, write either returns Ok(len(buf))
\* with the cursor advanced by len(buf) and the buffer copied at the old
\* cursor, or returns an error with the cursor unchanged
C5_WriteAllOrNothing ==
    \A l \in Logs : Running(l) =>
        \A b \in Bufs, c \in BOOLEAN :
            LET w   == write(logs[l], FileOf(l), b, c)
                old == logs[l].offset
            IN  \/ /\ w.tag = "Ok"
                   /\ w.n = Len(b)
                   /\ w.log.offset = old + Len(b)
                   /\ SubSeq(w.file.mem, old + 1, old + Len(b)) = b
                \/ /\ w.tag \in {"NoSpaceLeft", "Io"}
                   /\ w.log.offset = old

\* C6: in every state offset() is the total length of the successful writes of
\* the Log, the first offset bytes of the mapped region and of the file are
\* those writes' buffers in call order, and no write changes a byte below the
\* cursor it starts from
C6_ContentIsTheWritesInOrder ==
    \A l \in Logs : Running(l) =>
        LET f   == FileOf(l)
            off == logs[l].offset
        IN  /\ off = Len(logs[l].written)
            /\ off <= Len(f.mem)
            /\ SubSeq(f.mem, 1, off) = logs[l].written
            /\ off <= f.len
            /\ SubSeq(Contents(f), 1, off) = logs[l].written
            /\ \A b \in Bufs, c \in BOOLEAN :
                  LET w == write(logs[l], f, b, c)
                  IN  w.tag = "Ok" =>
                         \A i \in 1..off : w.file.mem[i] = f.mem[i]

\* C7: in every state every byte of a Log at a position in [offset, max_size)
\* is zero, and every read_at of a range between the cursor and max_size
\* succeeds and returns zeros
C7_UnwrittenRegionIsZero ==
    \A l \in Logs : Running(l) =>
        LET f == FileOf(l)
        IN  /\ \A i \in (logs[l].offset + 1)..logs[l].max_size :
                  i <= Len(f.mem) /\ f.mem[i] = 0
            /\ \A o \in Usize, n \in Usize, c \in BOOLEAN :
                  (logs[l].offset <= o /\ o + n <= logs[l].max_size) =>
                      read_at(logs[l], f, o, n, c)
                         = [tag |-> "Ok", bytes |-> Zeros(n)]

\* C8: in every state the file of a Log the caller holds is max_size bytes
\* long, and no write changes the length of the file
C8_FileLengthIsMaxSize ==
    \A l \in Logs : Running(l) =>
        /\ FileOf(l).exists
        /\ FileOf(l).len = logs[l].max_size
        /\ \A b \in Bufs, c \in BOOLEAN :
              write(logs[l], FileOf(l), b, c).file.len = FileOf(l).len

\* C9: every call of new returns: Ok, or the I/O error of the step that failed
C9_NewReturnsItsFailures ==
    last.op = "new" => last.tag \in {"Ok", "Io"} /\ status = "running"

\* the character is a decimal digit
IsDigit(ch) == \E d \in 1..10 : DigitChar[d] = ch

RECURSIVE DecimalValue(_)
\* the number a string of decimal digits denotes
DecimalValue(s) ==
    IF s = <<>> THEN 0
    ELSE 10 * DecimalValue(SubSeq(s, 1, Len(s) - 1))
         + (CHOOSE d \in 0..9 : DigitChar[d + 1] = s[Len(s)])

\* the name is 20 decimal digits denoting the base offset, then ".log", then
\* the suffix
NamedAfter(name, base_offset, suffix) ==
    /\ Len(name) = 20 + 4 + Len(suffix)
    /\ \A i \in 1..20 : IsDigit(name[i])
    /\ DecimalValue(SubSeq(name, 1, 20)) = base_offset
    /\ SubSeq(name, 21, 24) = <<".", "l", "o", "g">>
    /\ SubSeq(name, 25, Len(name)) = suffix
    /\ (base_offset = 0 /\ suffix = <<>>) =>
          name = <<"0", "0", "0", "0", "0", "0", "0", "0", "0", "0",
                   "0", "0", "0", "0", "0", "0", "0", "0", "0", "0",
                   ".", "l", "o", "g">>

\* C10: a step in which new returns a Log leaves a file at the name made of the
\* base offset as 20 zero-padded digits, ".log" and the suffix; that Log's
\* offset() is 0; and Logs of distinct base offsets and one suffix are on
\* distinct names
C10_NewNamesTheSegmentFile ==
    [][\A l \in Logs : (~logs[l].live /\ logs'[l].live) =>
          /\ last' = [op |-> "new", tag |-> "Ok"]
          /\ NamedAfter(logs'[l].file, logs'[l].base_offset, logs'[l].suffix)
          /\ FileAt(files', logs'[l].file).exists
          /\ dir'
          /\ logs'[l].offset = 0
          /\ \A k \in Logs :
                (/\ logs'[k].live
                 /\ logs'[k].base_offset # logs'[l].base_offset
                 /\ logs'[k].suffix = logs'[l].suffix)
                => logs'[k].file # logs'[l].file]_vars

\* new has just returned a second Log, with a non-empty suffix, whose base
\* offset differs from that of the first Log of the same suffix
C10_Witness ==
    /\ last = [op |-> "new", tag |-> "Ok"]
    /\ \E l \in Logs, k \in Logs :
          /\ Running(l) /\ Running(k)
          /\ logs[l].base_offset = 0
          /\ logs[k].base_offset = MaxBaseOffset
          /\ logs[l].suffix = logs[k].suffix
          /\ logs[l].suffix # <<>>
          /\ logs[k].offset = 0

\* C11: in every state a write of exactly max_size - offset bytes succeeds and
\* leaves offset() == max_size, and fit(size) is true exactly when
\* size <= max_size - offset
C11_BoundaryIsAtEquality ==
    \A l \in Logs : Running(l) =>
        LET left == logs[l].max_size - logs[l].offset
        IN  /\ \A b \in Bufs, c \in BOOLEAN :
                  Len(b) = left =>
                      LET w == write(logs[l], FileOf(l), b, c)
                      IN  w.tag = "Ok" /\ w.log.offset = logs[l].max_size
            /\ \A n \in Usize, c \in BOOLEAN :
                  (fit(logs[l], n, c) = "true") <=> (n <= left)

\* C12: a step that is a call of fit, offset, flush, or of read_at returning Ok
\* or InvalidIndex, changes no Log (cursor, max_size, base_offset), no byte
\* and no length of a file
C12_OnlyWriteMutates ==
    [][(\/ last'.op \in {"fit", "offset", "flush"}
        \/ (last'.op = "read_at" /\ last'.tag \in {"Ok", "InvalidIndex"}))
       => (logs' = logs /\ files' = files /\ dir' = dir)]_vars

\* fit has just answered true on a Log that is partly filled
C12_Witness ==
    /\ last = [op |-> "fit", tag |-> "true"]
    /\ \E l \in Logs : Running(l) /\ 0 < logs[l].offset
                       /\ logs[l].offset < logs[l].max_size

\* C13: no step lowers the cursor of a Log, and a Log whose cursor has left 0
\* (Filling) never has cursor 0 (Fresh) again
C13_CursorNeverDecreases ==
    [][\A l \in Logs : (logs[l].live /\ logs'[l].live) =>
          /\ logs'[l].offset >= logs[l].offset
          /\ (logs[l].offset > 0 => logs'[l].offset > 0)]_vars

\* offset() has just been asked of a Log filled to its max_size of two bytes
\* or more
C13_Witness ==
    /\ last = [op |-> "offset", tag |-> "Ok"]
    /\ \E l \in Logs : /\ Running(l)
                       /\ logs[l].offset = logs[l].max_size
                       /\ logs[l].offset >= 2

\* C14: in every state no two Logs the caller holds are on the same file
C14_OneLogPerFile ==
    \A l \in Logs, k \in Logs :
        (l # k /\ Running(l) /\ Running(k)) => logs[l].file # logs[k].file

\* C15: a step in which new returns a Log on a file that already has max_size
\* bytes leaves every byte of the file as it was and sets the cursor to 0, so
\* read_at returns the bytes written before and the first successful write
\* stores its buffer from position 0 on, over them
C15_NewDoesNotRecoverTheCursor ==
    [][\A l \in Logs : (~logs[l].live /\ logs'[l].live) =>
          LET old == FileAt(files, logs'[l].file)
              now == FileAt(files', logs'[l].file)
              m   == logs'[l].max_size
          IN  (old.exists /\ old.len = m) =>
                /\ logs'[l].offset = 0
                /\ now.len = old.len
                /\ Contents(now) = Contents(old)
                /\ \A o \in 0..m, n \in 0..m, c \in BOOLEAN :
                      o + n <= m =>
                         read_at(logs'[l], now, o, n, c)
                            = [tag |-> "Ok",
                               bytes |-> SubSeq(old.mem, o + 1, o + n)]
                /\ \A b \in Bufs, c \in BOOLEAN :
                      LET w == write(logs'[l], now, b, c)
                      IN  /\ w.tag = "Ok" <=> Len(b) <= m
                          /\ w.tag = "Ok" =>
                               /\ SubSeq(w.file.mem, 1, Len(b)) = b
                               /\ \A i \in (Len(b) + 1)..m :
                                     w.file.mem[i] = old.mem[i]]_vars

\* new has just returned the only Log the caller holds, with cursor 0, on a
\* file whose first byte an earlier, dropped Log wrote
C15_Witness ==
    /\ last = [op |-> "new", tag |-> "Ok"]
    /\ \E l \in Logs :
          /\ Running(l)
          /\ \A k \in Logs : k # l => ~logs[k].live
          /\ logs[l].offset = 0
          /\ FileOf(l).mem[1] # 0

\* C16: in every state, also with offset == max_size, a write of the empty
\* buffer returns Ok(0) and changes neither the cursor nor any mapped byte
C16_EmptyWriteAlwaysSucceeds ==
    \A l \in Logs : Running(l) =>
        \A c \in BOOLEAN :
            write(logs[l], FileOf(l), <<>>, c)
               = [tag |-> "Ok", n |-> 0, log |-> logs[l], file |-> FileOf(l)]

\* a write has just returned Ok while the Log the caller holds is full
C16_Witness ==
    /\ last = [op |-> "write", tag |-> "Ok"]
    /\ \E l \in Logs : /\ Running(l)
                       /\ logs[l].offset = logs[l].max_size
                       /\ \A k \in Logs : k # l => ~logs[k].live

\* C17: for every size n, a step that changes a Log or a file, taken from a
\* state where fit(n) is false on a Log (write of n bytes is refused), leads
\* to a state where it is false again; a step that changes neither leaves
\* fit and write as they are
C17_FullnessIsStable ==
    [][\A l \in Logs :
          (logs[l].live /\ logs'[l].live /\ <<logs, files>>' # <<logs, files>>)
          => \A c \in BOOLEAN :
               /\ \A n \in Usize :
                     fit(logs[l], n, c) = "false"
                     => fit(logs'[l], n, c) = "false"
               /\ \A b \in Bufs :
                     write(logs[l], FileOf(l), b, c).tag = "NoSpaceLeft"
                     => write(logs'[l], FileAt(files', logs'[l].file), b, c).tag
                           = "NoSpaceLeft"]_vars

\* fit has just answered false on a Log that still has room for a smaller size
C17_Witness ==
    /\ last = [op |-> "fit", tag |-> "false"]
    /\ \E l \in Logs : /\ Running(l)
                       /\ 0 < logs[l].offset
                       /\ logs[l].offset < logs[l].max_size
                       /\ \A k \in Logs : k # l => ~logs[k].live

\* ------------------------------------------------- the write-until-full loop
\* the caller opens its segments before it starts to write
LoopSetup ==
    /\ last.op \in {"none", "new"}
    /\ \E l \in Logs, b \in BaseOffsets, m \in Sizes, f \in NewFailures :
          New(l, b, m, <<>>, f)

\* one turn of the loop: a write of a non-empty buffer to the first Log, taken
\* until a write returns NoSpaceLeft
LoopWrite ==
    /\ last # [op |-> "write", tag |-> "NoSpaceLeft"]
    /\ \E b \in Bufs \ {<<>>} :
          \E c \in Profiles(logs[1].offset > logs[1].max_size
                            \/ logs[1].offset + Len(b) > UsizeMax) :
             Write(1, b, c)

NextLoop == LoopSetup \/ LoopWrite

\* the loop goes on while it can: a turn that stays possible is taken
SpecLoop == Init /\ [][NextLoop]_vars /\ WF_vars(LoopWrite)

\* C18: a caller that has started to write non-empty buffers to one Log and
\* keeps writing eventually receives NoSpaceLeft
C18_LoopReachesNoSpaceLeft ==
    (last.op = "write") ~> (last = [op |-> "write", tag |-> "NoSpaceLeft"])

====
